---------------------------- MODULE Spec2Model ----------------------------
(***************************************************************************)
(* Model of src/ABB/biblioteca.c: a catalog of books kept in an unbalanced *)
(* binary search tree ordered by id, with borrow/return, a line-oriented   *)
(* file written in balanced pre-order and a loader that re-inserts the     *)
(* lines one by one.                                                       *)
(*                                                                         *)
(* A tree is NULL or a record [id, titulo, autor, disponivel, esq, dir].   *)
(* The C code mutates nodes through pointers; here every function returns  *)
(* the tree that the mutation leaves behind.  Texts (char arrays) and the  *)
(* file are sequences of one-character strings.                            *)
(***************************************************************************)
EXTENDS Integers, Sequences, FiniteSets, TLC

VARIABLES raiz, arquivo, salvo, antes, ult, inseridos

vars == <<raiz, arquivo, salvo, antes, ult, inseridos>>

(***************************************************************************)
(* Bounds of the model                                                     *)
(***************************************************************************)
\* ids drawn by the operations of Spec are 1..MaxId
MaxId == 3
\* ids drawn by the operations of SpecArquivo are 1..MaxIdArq
MaxIdArq == 2
\* ids drawn by the operations of SpecForma are 1..MaxIdForma
MaxIdForma == 6
\* SpecFila loads a catalog of MaxFila + Excesso records
Excesso == 1

(***************************************************************************)
(* Program constants                                                       *)
(***************************************************************************)
\* char linha[256]
TamLinha == 256
\* malloc(1000 * sizeof(Livro *))
MaxFila == 1000
\* "Exemplo pratico com 7 livros (IDs 1 a 7)"
NCadeia == 7

NULL == <<>>

Ids == 1..MaxId
IdsArq == 1..MaxIdArq
IdsForma == 1..MaxIdForma
IdsFila == {1, MaxFila, MaxFila + Excesso}
Titulos == {<<>>, <<"a">>}
Autores == {<<"x">>}

(***************************************************************************)
(* Tree engine                                                             *)
(***************************************************************************)
\* mem: whether malloc returned a block
criarLivro(id, titulo, autor, mem) ==
    IF mem
    THEN [id |-> id, titulo |-> titulo, autor |-> autor, disponivel |-> 1,
          esq |-> NULL, dir |-> NULL]
    ELSE NULL

RECURSIVE inserirLivroRecursivo(_, _, _, _, _)
inserirEspelhado(raiz_, id, titulo, autor, mem) ==
    IF raiz_ = NULL
    THEN criarLivro(id, titulo, autor, mem)
    ELSE IF id < raiz_.id
    THEN [raiz_ EXCEPT !.dir = inserirLivroRecursivo(@, id, titulo, autor, mem)]
    ELSE IF id > raiz_.id
    THEN [raiz_ EXCEPT !.esq = inserirLivroRecursivo(@, id, titulo, autor, mem)]
    ELSE raiz_

inserirSobrescreve(raiz_, id, titulo, autor, mem) ==
    IF raiz_ = NULL
    THEN criarLivro(id, titulo, autor, mem)
    ELSE IF id < raiz_.id
    THEN [raiz_ EXCEPT !.esq = inserirLivroRecursivo(@, id, titulo, autor, mem)]
    ELSE IF id > raiz_.id
    THEN [raiz_ EXCEPT !.dir = inserirLivroRecursivo(@, id, titulo, autor, mem)]
    ELSE [raiz_ EXCEPT !.titulo = titulo, !.autor = autor, !.disponivel = 1]

inserirLivroRecursivo(raiz_, id, titulo, autor, mem) ==
    IF raiz_ = NULL
    THEN criarLivro(id, titulo, autor, mem)
    ELSE IF id < raiz_.id
    THEN [raiz_ EXCEPT !.esq = inserirLivroRecursivo(@, id, titulo, autor, mem)]
    ELSE IF id > raiz_.id
    THEN [raiz_ EXCEPT !.dir = inserirLivroRecursivo(@, id, titulo, autor, mem)]
    ELSE raiz_

inserirLivro(raiz_, id, titulo, autor, mem) ==
    inserirLivroRecursivo(raiz_, id, titulo, autor, mem)

\* what the call hands back to its caller and prints: inserirLivro returns
\* void and has no printf, whether a node was created, the id was already
\* there or malloc failed
saidaInserirLivro(raiz_, id, titulo, autor, mem) == <<>>

RECURSIVE buscarLivroRecursivo(_, _)
buscarSoNaRaiz(raiz_, id) ==
    IF raiz_ = NULL \/ raiz_.id = id
    THEN raiz_
    ELSE NULL

buscarLivroRecursivo(raiz_, id) ==
    IF raiz_ = NULL \/ raiz_.id = id
    THEN raiz_
    ELSE IF id < raiz_.id
    THEN buscarLivroRecursivo(raiz_.esq, id)
    ELSE buscarLivroRecursivo(raiz_.dir, id)

buscarLivro(raiz_, id) == buscarLivroRecursivo(raiz_, id)

RECURSIVE encontrarMenor(_)
encontrarMenor(raiz_) ==
    IF raiz_ # NULL /\ raiz_.esq # NULL
    THEN encontrarMenor(raiz_.esq)
    ELSE raiz_

RECURSIVE removerLivroRecursivo(_, _)
removerSemSucessor(raiz_, id) ==
    IF raiz_ = NULL
    THEN raiz_
    ELSE IF id < raiz_.id
    THEN [raiz_ EXCEPT !.esq = removerLivroRecursivo(@, id)]
    ELSE IF id > raiz_.id
    THEN [raiz_ EXCEPT !.dir = removerLivroRecursivo(@, id)]
    ELSE IF raiz_.esq = NULL
    THEN raiz_.dir
    ELSE raiz_.esq

removerDesceDireita(raiz_, id) ==
    IF raiz_ = NULL
    THEN raiz_
    ELSE IF id < raiz_.id
    THEN [raiz_ EXCEPT !.esq = removerLivroRecursivo(@, id)]
    ELSE IF id > raiz_.id
    THEN removerLivroRecursivo(raiz_.dir, id)
    ELSE IF raiz_.esq = NULL
    THEN raiz_.dir
    ELSE IF raiz_.dir = NULL
    THEN raiz_.esq
    ELSE LET temp == encontrarMenor(raiz_.dir)
         IN  [raiz_ EXCEPT !.id = temp.id,
                           !.titulo = temp.titulo,
                           !.autor = temp.autor,
                           !.disponivel = temp.disponivel,
                           !.dir = removerLivroRecursivo(@, temp.id)]

removerCopiaSoId(raiz_, id) ==
    IF raiz_ = NULL
    THEN raiz_
    ELSE IF id < raiz_.id
    THEN [raiz_ EXCEPT !.esq = removerLivroRecursivo(@, id)]
    ELSE IF id > raiz_.id
    THEN [raiz_ EXCEPT !.dir = removerLivroRecursivo(@, id)]
    ELSE IF raiz_.esq = NULL
    THEN raiz_.dir
    ELSE IF raiz_.dir = NULL
    THEN raiz_.esq
    ELSE LET temp == encontrarMenor(raiz_.dir)
         IN  [raiz_ EXCEPT !.id = temp.id,
                           !.dir = removerLivroRecursivo(@, temp.id)]

removerLivroRecursivo(raiz_, id) ==
    IF raiz_ = NULL
    THEN raiz_
    ELSE IF id < raiz_.id
    THEN [raiz_ EXCEPT !.esq = removerLivroRecursivo(@, id)]
    ELSE IF id > raiz_.id
    THEN [raiz_ EXCEPT !.dir = removerLivroRecursivo(@, id)]
    ELSE IF raiz_.esq = NULL
    THEN raiz_.dir
    ELSE IF raiz_.dir = NULL
    THEN raiz_.esq
    ELSE LET temp == encontrarMenor(raiz_.dir)
         IN  [raiz_ EXCEPT !.id = temp.id,
                           !.titulo = temp.titulo,
                           !.autor = temp.autor,
                           !.disponivel = temp.disponivel,
                           !.dir = removerLivroRecursivo(@, temp.id)]

removerLivro(raiz_, id) == removerLivroRecursivo(raiz_, id)

RECURSIVE contarLivros(_)
contarSemEsquerda(raiz_) ==
    IF raiz_ = NULL
    THEN 0
    ELSE 1 + contarLivros(raiz_.dir)

contarLivros(raiz_) ==
    IF raiz_ = NULL
    THEN 0
    ELSE 1 + contarLivros(raiz_.esq) + contarLivros(raiz_.dir)

\* what one node prints: id, title, author and Sim/Nao
Impresso(no) ==
    [id |-> no.id, titulo |-> no.titulo, autor |-> no.autor,
     disponivel |-> IF no.disponivel # 0 THEN "Sim" ELSE "Nao"]

RECURSIVE listarLivrosRecursivo(_)
listarLivrosRecursivo(raiz_) ==
    IF raiz_ # NULL
    THEN listarLivrosRecursivo(raiz_.esq) \o <<Impresso(raiz_)>>
            \o listarLivrosRecursivo(raiz_.dir)
    ELSE <<>>

listarLivros(raiz_) ==
    IF raiz_ = NULL
    THEN <<"Biblioteca vazia!">>
    ELSE listarLivrosRecursivo(raiz_)

\* the write livro->disponivel = v through the pointer buscarLivro returned
RECURSIVE atribuirDisponivel(_, _, _)
atribuirDisponivel(raiz_, id, v) ==
    IF raiz_ = NULL
    THEN raiz_
    ELSE IF raiz_.id = id
    THEN [raiz_ EXCEPT !.disponivel = v]
    ELSE IF id < raiz_.id
    THEN [raiz_ EXCEPT !.esq = atribuirDisponivel(@, id, v)]
    ELSE [raiz_ EXCEPT !.dir = atribuirDisponivel(@, id, v)]

emprestarSempre(raiz_, id) ==
    LET livro == buscarLivro(raiz_, id)
    IN  IF livro # NULL
        THEN [raiz |-> atribuirDisponivel(raiz_, id, 0), res |-> "emprestado"]
        ELSE [raiz |-> raiz_, res |-> "nao encontrado"]

emprestarLivro(raiz_, id) ==
    LET livro == buscarLivro(raiz_, id)
    IN  IF livro # NULL
        THEN IF livro.disponivel # 0
             THEN [raiz |-> atribuirDisponivel(raiz_, id, 0), res |-> "emprestado"]
             ELSE [raiz |-> raiz_, res |-> "indisponivel"]
        ELSE [raiz |-> raiz_, res |-> "nao encontrado"]

devolverLivro(raiz_, id) ==
    LET livro == buscarLivro(raiz_, id)
    IN  IF livro # NULL
        THEN IF livro.disponivel = 0
             THEN [raiz |-> atribuirDisponivel(raiz_, id, 1), res |-> "devolvido"]
             ELSE [raiz |-> raiz_, res |-> "ja disponivel"]
        ELSE [raiz |-> raiz_, res |-> "nao encontrado"]

(***************************************************************************)
(* Level-order dump                                                        *)
(***************************************************************************)
\* One pass of the while loop of imprimirPorNiveis.  e.fila holds every
\* entry written so far (fim = Len(e.fila)), e.inicio is the C index of the
\* next entry to read, e.saida what was printed, e.ate the number of records
\* printed when a fila[fim++] first ran with fim >= MaxFila (0 while none did).
\* Once inicio = fim the loop has ended and a pass changes nothing.
passoFila(e) ==
    IF e.inicio < Len(e.fila)
    THEN LET atual == e.fila[e.inicio + 1]
             s1 == Append(e.saida, [id |-> atual.id, titulo |-> atual.titulo])
             f1 == IF atual.esq # NULL THEN Append(e.fila, atual.esq) ELSE e.fila
             f2 == IF atual.dir # NULL THEN Append(f1, atual.dir) ELSE f1
         IN  [fila |-> f2, inicio |-> e.inicio + 1, saida |-> s1,
              ate |-> IF e.ate = 0 /\ Len(f2) > MaxFila THEN Len(s1) ELSE e.ate]
    ELSE e

\* n passes in a row (split in halves, so that the nesting stays shallow)
RECURSIVE percorrerFila(_, _)
percorrerFila(e, n) ==
    IF n = 0 THEN e
    ELSE IF n = 1 THEN passoFila(e)
    ELSE LET m == percorrerFila(e, n \div 2)
         IN  IF m.inicio < Len(m.fila)
             THEN percorrerFila(m, n - (n \div 2))
             ELSE m

\* the loop runs once per entry of the queue, one entry per node
imprimirPorNiveis(raiz_) ==
    IF raiz_ = NULL
    THEN [saida |-> <<>>, fim |-> 0, ate |-> 0]
    ELSE LET e == percorrerFila([fila |-> <<raiz_>>, inicio |-> 0,
                                 saida |-> <<>>, ate |-> 0],
                                contarLivros(raiz_))
         IN  [saida |-> e.saida, fim |-> Len(e.fila), ate |-> e.ate]

(***************************************************************************)
(* The file format: fprintf "%d|%s|%s|%d\n", fgets, sscanf                 *)
(***************************************************************************)
Digitos == <<"0", "1", "2", "3", "4", "5", "6", "7", "8", "9">>

RECURSIVE DecNat(_)
DecNat(n) ==
    IF n < 10
    THEN <<Digitos[n + 1]>>
    ELSE DecNat(n \div 10) \o <<Digitos[(n % 10) + 1]>>

\* %d of fprintf
Dec(n) == IF n < 0 THEN <<"-">> \o DecNat(-n) ELSE DecNat(n)

\* fprintf(arquivo, "%d|%s|%s|%d\n", id, titulo, autor, disponivel)
fprintfLivro(livro) ==
    Dec(livro.id) \o <<"|">> \o livro.titulo \o <<"|">> \o livro.autor
        \o <<"|">> \o Dec(livro.disponivel) \o <<"\n">>

EhEspaco(c) == c \in {" ", "\t", "\n"}
EhDigito(c) == \E d \in 1..10 : Digitos[d] = c
ValorDigito(c) == (CHOOSE d \in 1..10 : Digitos[d] = c) - 1

RECURSIVE pularEspacos(_, _)
pularEspacos(s, i) ==
    IF i <= Len(s) /\ EhEspaco(s[i]) THEN pularEspacos(s, i + 1) ELSE i

RECURSIVE lerDigitos(_, _, _)
lerDigitos(s, i, acc) ==
    IF i <= Len(s) /\ EhDigito(s[i])
    THEN lerDigitos(s, i + 1, acc * 10 + ValorDigito(s[i]))
    ELSE [valor |-> acc, prox |-> i]

\* the conversion %d of sscanf, from position i0
lerInt(s, i0) ==
    LET i == pularEspacos(s, i0)
        sinal == i <= Len(s) /\ s[i] \in {"-", "+"}
        j == IF sinal THEN i + 1 ELSE i
        d == lerDigitos(s, j, 0)
    IN  IF d.prox = j
        THEN [ok |-> FALSE, valor |-> 0, prox |-> i0]
        ELSE [ok |-> TRUE,
              valor |-> IF sinal /\ s[i] = "-" THEN 0 - d.valor ELSE d.valor,
              prox |-> d.prox]

RECURSIVE fimDoConjunto(_, _)
fimDoConjunto(s, i) ==
    IF i <= Len(s) /\ s[i] # "|" THEN fimDoConjunto(s, i + 1) ELSE i

\* the conversion %[^|] of sscanf, from position i
lerConjunto(s, i) ==
    LET j == fimDoConjunto(s, i)
    IN  [ok |-> j > i, texto |-> SubSeq(s, i, j - 1), prox |-> j]

\* the literal | of the format
lerBarra(s, i) == i <= Len(s) /\ s[i] = "|"

\* sscanf(linha, "%d|%[^|]|%[^|]|%d", &id, titulo, autor, &disponivel):
\* loc holds the four locals before the call; n is sscanf's return value,
\* which carregarLivros does not look at.
sscanfLinha(linha, loc) ==
    LET a == lerInt(linha, 1)
    IN  IF ~a.ok THEN [loc |-> loc, n |-> 0]
        ELSE
        LET l1 == [loc EXCEPT !.id = a.valor]
        IN  IF ~lerBarra(linha, a.prox) THEN [loc |-> l1, n |-> 1]
            ELSE
            LET t == lerConjunto(linha, a.prox + 1)
            IN  IF ~t.ok THEN [loc |-> l1, n |-> 1]
                ELSE
                LET l2 == [l1 EXCEPT !.titulo = t.texto]
                IN  IF ~lerBarra(linha, t.prox) THEN [loc |-> l2, n |-> 2]
                    ELSE
                    LET u == lerConjunto(linha, t.prox + 1)
                    IN  IF ~u.ok THEN [loc |-> l2, n |-> 2]
                        ELSE
                        LET l3 == [l2 EXCEPT !.autor = u.texto]
                        IN  IF ~lerBarra(linha, u.prox) THEN [loc |-> l3, n |-> 3]
                            ELSE
                            LET d == lerInt(linha, u.prox + 1)
                            IN  IF ~d.ok THEN [loc |-> l3, n |-> 3]
                                ELSE [loc |-> [l3 EXCEPT !.disponivel = d.valor],
                                      n |-> 4]

\* fgets(linha, sizeof(linha), arquivo) with the stream at position i0: the
\* position of the last character read, which is a newline, the character
\* TamLinha - 1 of the line or the last of the file
RECURSIVE fgets(_, _, _)
fgets(dados, i0, i) ==
    IF i >= Len(dados) \/ i - i0 + 1 >= TamLinha - 1 \/ dados[i] = "\n"
    THEN i
    ELSE fgets(dados, i0, i + 1)

(***************************************************************************)
(* Balanced save                                                           *)
(***************************************************************************)
RECURSIVE armazenarLivrosEmOrdem(_)
armazenarLivrosEmOrdem(raiz_) ==
    IF raiz_ # NULL
    THEN armazenarLivrosEmOrdem(raiz_.esq) \o <<raiz_>>
            \o armazenarLivrosEmOrdem(raiz_.dir)
    ELSE <<>>

\* vetor is indexed from 0 in C: vetor[meio] is vetor[meio + 1] here
RECURSIVE salvarBalanceadoRecursivo(_, _, _)
salvarEmOrdem(vetor, inicio, fim) ==
    IF inicio <= fim
    THEN fprintfLivro(vetor[inicio + 1])
            \o salvarBalanceadoRecursivo(vetor, inicio + 1, fim)
    ELSE <<>>

salvarMeioParaCima(vetor, inicio, fim) ==
    IF inicio <= fim
    THEN LET meio == (inicio + fim + 1) \div 2
             livro == vetor[meio + 1]
         IN  fprintfLivro(livro)
                \o salvarBalanceadoRecursivo(vetor, inicio, meio - 1)
                \o salvarBalanceadoRecursivo(vetor, meio + 1, fim)
    ELSE <<>>

salvarBalanceadoRecursivo(vetor, inicio, fim) ==
    IF inicio <= fim
    THEN LET meio == (inicio + fim) \div 2
             livro == vetor[meio + 1]
         IN  fprintfLivro(livro)
                \o salvarBalanceadoRecursivo(vetor, inicio, meio - 1)
                \o salvarBalanceadoRecursivo(vetor, meio + 1, fim)
    ELSE <<>>

salvarSemUltimo(raiz_, mem) ==
    LET n == contarLivros(raiz_)
    IN  IF ~mem
        THEN <<>>
        ELSE salvarBalanceadoRecursivo(armazenarLivrosEmOrdem(raiz_), 0, n - 2)

\* what the call writes to the open stream; nothing when malloc fails
salvarLivrosBalanceado(raiz_, mem) ==
    LET n == contarLivros(raiz_)
    IN  IF ~mem
        THEN <<>>
        ELSE salvarBalanceadoRecursivo(armazenarLivrosEmOrdem(raiz_), 0, n - 1)

salvarLivros(raiz_, mem) == salvarLivrosBalanceado(raiz_, mem)

(***************************************************************************)
(* Load                                                                    *)
(***************************************************************************)
\* One pass of the while loop of carregarLivros.  e.raiz is bib->raiz, e.pos
\* the position of the stream in dados, e.loc the locals id, titulo, autor,
\* disponivel, which keep their values from one line to the next.  At end of
\* file fgets returns NULL, the loop has ended and a pass changes nothing.
passoCarregarSoNovos(dados, e) ==
    IF e.pos > Len(dados)
    THEN e
    ELSE LET k == fgets(dados, e.pos, e.pos)
             l == sscanfLinha(SubSeq(dados, e.pos, k), e.loc).loc
             r1 == inserirLivro(e.raiz, l.id, l.titulo, l.autor, TRUE)
             livro == buscarLivro(r1, l.id)
             r2 == IF livro # NULL /\ buscarLivro(e.raiz, l.id) = NULL
                   THEN atribuirDisponivel(r1, l.id, l.disponivel)
                   ELSE r1
         IN  [raiz |-> r2, pos |-> k + 1, loc |-> l]

passoCarregar(dados, e) ==
    IF e.pos > Len(dados)
    THEN e
    ELSE LET k == fgets(dados, e.pos, e.pos)
             l == sscanfLinha(SubSeq(dados, e.pos, k), e.loc).loc
             r1 == inserirLivro(e.raiz, l.id, l.titulo, l.autor, TRUE)
             livro == buscarLivro(r1, l.id)
             r2 == IF livro # NULL
                   THEN atribuirDisponivel(r1, l.id, l.disponivel)
                   ELSE r1
         IN  [raiz |-> r2, pos |-> k + 1, loc |-> l]

\* n passes in a row (split in halves, so that the nesting stays shallow)
RECURSIVE repetirCarregar(_, _, _)
repetirCarregar(dados, e, n) ==
    IF n = 0 THEN e
    ELSE IF n = 1 THEN passoCarregar(dados, e)
    ELSE LET m == repetirCarregar(dados, e, n \div 2)
         IN  IF m.pos > Len(dados)
             THEN m
             ELSE repetirCarregar(dados, m, n - (n \div 2))

\* the whole loop: every line holds a character, so Len(dados) passes reach
\* the end of the file
lerLinhas(raiz_, dados, loc) ==
    repetirCarregar(dados, [raiz |-> raiz_, pos |-> 1, loc |-> loc], Len(dados)).raiz

carregarEsvazia(raiz_, arq, lixo) ==
    IF ~arq.existe
    THEN [raiz |-> NULL, res |-> "erro ao abrir"]
    ELSE [raiz |-> lerLinhas(raiz_, arq.dados, lixo), res |-> "carregados"]

\* arq: [existe, dados]; lixo: the values the uninitialised locals hold
carregarLivros(raiz_, arq, lixo) ==
    IF ~arq.existe
    THEN [raiz |-> raiz_, res |-> "erro ao abrir"]
    ELSE [raiz |-> lerLinhas(raiz_, arq.dados, lixo), res |-> "carregados"]

(***************************************************************************)
(* The files restore can be asked to read                                  *)
(***************************************************************************)
\* the file persist writes
NomeSalvo == "livros.txt"

Texto(livro) == fprintfLivro(livro)

Reg(id, titulo, autor, disponivel) ==
    [id |-> id, titulo |-> titulo, autor |-> autor, disponivel |-> disponivel]

\* what persist writes for a catalog of MaxFila + Excesso records
ArquivoGrande ==
    salvarBalanceadoRecursivo(
        [i \in 1..(MaxFila + Excesso) |-> Reg(i, <<"a">>, <<"x">>, 1)],
        0, MaxFila + Excesso - 1)

\* files found on disk, not written by this program
ArquivoExterno(nome) ==
    CASE nome = "ok" ->
           [existe |-> TRUE,
            dados |-> Texto(Reg(2, <<"a">>, <<"x">>, 0))
                        \o <<"1", "|", "a", "|", "x", "|", "1">>]
      [] nome = "curto" ->
           [existe |-> TRUE,
            dados |-> Texto(Reg(1, <<"a">>, <<"x">>, 0))
                        \o <<"2", "\n">>
                        \o Texto(Reg(1, <<"a">>, <<"x">>, 1))]
      [] nome = "lixo" ->
           [existe |-> TRUE,
            dados |-> <<"?", "\n">> \o Texto(Reg(2, <<"a">>, <<"x">>, 1))]
      [] nome = "repetido" ->
           [existe |-> TRUE,
            dados |-> Texto(Reg(1, <<"a">>, <<"x">>, 1))
                        \o Texto(Reg(1, <<"b">>, <<"y">>, 0))]
      [] nome = "grande" -> [existe |-> TRUE, dados |-> ArquivoGrande]
      [] OTHER -> [existe |-> FALSE, dados |-> <<>>]

Nomes == {NomeSalvo, "ausente", "ok", "curto", "lixo", "repetido"}

Disco(nome) == IF nome = NomeSalvo THEN arquivo ELSE ArquivoExterno(nome)

\* values the locals of carregarLivros may hold before the first sscanf
Lixos ==
    {Reg(1, <<>>, <<"x">>, 0), Reg(2, <<"a">>, <<"x">>, 7),
     Reg(2, <<>>, <<"x">>, 1)}

\* The initial values are read only when the first sscanf leaves a local
\* unassigned; otherwise every choice of them gives the same run.
LixosLidos(arq) ==
    IF arq.existe /\ arq.dados # <<>>
          /\ sscanfLinha(SubSeq(arq.dados, 1, fgets(arq.dados, 1, 1)),
                         Reg(0, <<>>, <<>>, 0)).n < 4
    THEN Lixos
    ELSE {Reg(0, <<>>, <<>>, 0)}

(***************************************************************************)
(* State machine                                                           *)
(*   raiz      bib->raiz                                                   *)
(*   arquivo   the file NomeSalvo on disk                                  *)
(*   salvo     <<tree>> that the last persist wrote from, <<>> before it   *)
(*   antes     bib->raiz before the last operation                         *)
(*   ult       the last operation, its arguments and its outcome           *)
(*   inseridos the records inserted since the catalog was created, kept    *)
(*             while nothing but inserts of new ids has happened           *)
(***************************************************************************)
SemRegistro == [valido |-> FALSE, livros |-> {}]

Init ==
    /\ raiz = NULL
    /\ arquivo = [existe |-> FALSE, dados |-> <<>>]
    /\ salvo = <<>>
    /\ antes = NULL
    /\ ult = [op |-> "criar"]
    /\ inseridos = [valido |-> TRUE, livros |-> {}]

\* destruirBiblioteca of the old catalog, criarBiblioteca of the new one
CriarBiblioteca ==
    /\ raiz' = NULL
    /\ antes' = raiz
    /\ ult' = [op |-> "criar"]
    /\ inseridos' = [valido |-> TRUE, livros |-> {}]
    /\ UNCHANGED <<arquivo, salvo>>

Inserir(ids, titulos, autores) ==
    /\ \E id \in ids, titulo \in titulos, autor \in autores :
          /\ raiz' = inserirLivro(raiz, id, titulo, autor, TRUE)
          /\ antes' = raiz
          /\ ult' = [op |-> "inserir", id |-> id, titulo |-> titulo, autor |-> autor]
          /\ inseridos' =
                IF inseridos.valido /\ \A l \in inseridos.livros : l.id # id
                THEN [inseridos EXCEPT
                        !.livros = @ \cup {[id |-> id, titulo |-> titulo,
                                            autor |-> autor]}]
                ELSE SemRegistro
    /\ UNCHANGED <<arquivo, salvo>>

\* inserirLivro during which malloc returns NULL
InserirSemMemoria(ids, titulos, autores) ==
    /\ \E id \in ids, titulo \in titulos, autor \in autores :
          /\ raiz' = inserirLivro(raiz, id, titulo, autor, FALSE)
          /\ ult' = [op |-> "inserir sem memoria", id |-> id, titulo |-> titulo,
                     autor |-> autor,
                     saida |-> saidaInserirLivro(raiz, id, titulo, autor, FALSE)]
    /\ antes' = raiz
    /\ inseridos' = SemRegistro
    /\ UNCHANGED <<arquivo, salvo>>

Remover(ids) ==
    /\ \E id \in ids :
          /\ raiz' = removerLivro(raiz, id)
          /\ antes' = raiz
          /\ ult' = [op |-> "remover", id |-> id]
    /\ inseridos' = SemRegistro
    /\ UNCHANGED <<arquivo, salvo>>

Buscar(ids) ==
    /\ \E id \in ids :
          ult' = [op |-> "buscar", id |-> id, livro |-> buscarLivro(raiz, id)]
    /\ antes' = raiz
    /\ UNCHANGED <<raiz, arquivo, salvo, inseridos>>

Emprestar(ids) ==
    /\ \E id \in ids :
          LET r == emprestarLivro(raiz, id)
          IN  /\ raiz' = r.raiz
              /\ ult' = [op |-> "emprestar", id |-> id, res |-> r.res]
    /\ antes' = raiz
    /\ inseridos' = SemRegistro
    /\ UNCHANGED <<arquivo, salvo>>

Devolver(ids) ==
    /\ \E id \in ids :
          LET r == devolverLivro(raiz, id)
          IN  /\ raiz' = r.raiz
              /\ ult' = [op |-> "devolver", id |-> id, res |-> r.res]
    /\ antes' = raiz
    /\ inseridos' = SemRegistro
    /\ UNCHANGED <<arquivo, salvo>>

Listar ==
    /\ ult' = [op |-> "listar", saida |-> listarLivros(raiz)]
    /\ antes' = raiz
    /\ UNCHANGED <<raiz, arquivo, salvo, inseridos>>

Contar ==
    /\ ult' = [op |-> "contar", n |-> contarLivros(raiz)]
    /\ antes' = raiz
    /\ UNCHANGED <<raiz, arquivo, salvo, inseridos>>

\* A word written past the end of fila lands on whatever follows the block
\* in the heap; when that is a node, it covers the node's id and the first
\* characters of its title.  The root stands for the node that is hit.
Danificada(raiz_) ==
    IF raiz_ = NULL THEN raiz_ ELSE [raiz_ EXCEPT !.id = 0, !.titulo = <<"?">>]

\* What a run of imprimirPorNiveis that wrote past the end of fila can leave
\* behind: the whole dump, the dump cut where the program died at the first
\* such write, or the whole dump and a node overwritten.  A run that stayed
\* inside the block leaves the dump and the tree as it found it.
DesfechosDoEstouro(raiz_, r) ==
    IF r.ate > 0
    THEN {[saida |-> r.saida, raiz |-> raiz_],
          [saida |-> SubSeq(r.saida, 1, r.ate), raiz |-> raiz_],
          [saida |-> r.saida, raiz |-> Danificada(raiz_)]}
    ELSE {[saida |-> r.saida, raiz |-> raiz_]}

ImprimirPorNiveis ==
    /\ LET r == imprimirPorNiveis(raiz)
       IN  \E d \in DesfechosDoEstouro(raiz, r) :
              /\ ult' = [op |-> "niveis", saida |-> d.saida, fim |-> r.fim,
                         estouro |-> r.ate > 0]
              /\ raiz' = d.raiz
    /\ antes' = raiz
    /\ UNCHANGED <<arquivo, salvo, inseridos>>

\* salvarLivros on a stream the caller opened for writing on NomeSalvo
Salvar ==
    /\ arquivo' = [existe |-> TRUE, dados |-> salvarLivros(raiz, TRUE)]
    /\ salvo' = <<raiz>>
    /\ antes' = raiz
    /\ ult' = [op |-> "salvar"]
    /\ UNCHANGED <<raiz, inseridos>>

Carregar(nomes) ==
    /\ \E nome \in nomes :
        \E lixo \in LixosLidos(Disco(nome)) :
          LET r == carregarLivros(raiz, Disco(nome), lixo)
          IN  /\ raiz' = r.raiz
              /\ ult' = [op |-> "carregar", nome |-> nome, res |-> r.res]
    /\ antes' = raiz
    /\ inseridos' = SemRegistro
    /\ UNCHANGED <<arquivo, salvo>>

\* The catalog in memory.
Next ==
    \/ CriarBiblioteca
    \/ Inserir(Ids, Titulos, Autores)
    \/ Remover(Ids)
    \/ Buscar(Ids)
    \/ Emprestar(Ids)
    \/ Devolver(Ids)
    \/ Listar
    \/ Contar
    \/ ImprimirPorNiveis

Spec == Init /\ [][Next]_vars

\* The catalog and its file.  A behaviour is one session: the catalog is
\* loaded and edited, persisted once and then reloaded; the operations that
\* change records happen before the save, and after it only NomeSalvo is read.
Editavel == salvo = <<>>

NextArquivo ==
    \/ CriarBiblioteca
    \/ (Editavel /\ Inserir(IdsArq, Titulos, Autores))
    \/ (Editavel /\ Remover(IdsArq))
    \/ (Editavel /\ Emprestar(IdsArq))
    \/ (Editavel /\ Devolver(IdsArq))
    \/ (Editavel /\ Salvar)
    \/ Carregar(IF Editavel THEN Nomes ELSE {NomeSalvo})

SpecArquivo == Init /\ [][NextArquivo]_vars

\* Shapes: catalogs of up to MaxIdForma records that differ in their ids
\* only, persisted once and reloaded.
NextForma ==
    \/ CriarBiblioteca
    \/ (Editavel /\ Inserir(IdsForma, {<<"a">>}, Autores))
    \/ (Editavel /\ Remover(IdsForma))
    \/ (Editavel /\ Salvar)
    \/ Carregar({NomeSalvo})

SpecForma == Init /\ [][NextForma]_vars

\* The chain: ids 1, 2, ... NCadeia inserted in increasing order, persisted
\* once and reloaded.
ProximoDaCadeia == {contarLivros(raiz) + 1} \cap (1..NCadeia)

NextCadeia ==
    \/ CriarBiblioteca
    \/ (Editavel /\ Inserir(ProximoDaCadeia, Titulos, Autores))
    \/ (Editavel /\ Salvar)
    \/ Carregar({NomeSalvo})

SpecCadeia == Init /\ [][NextCadeia]_vars

\* A large catalog: the file of MaxFila + Excesso records is loaded into the
\* empty catalog, then read and dumped.
NextFila ==
    \/ (raiz = NULL /\ Carregar({"grande"}))
    \/ Buscar(IdsFila)
    \/ Emprestar(IdsFila)
    \/ Devolver(IdsFila)
    \/ Contar
    \/ ImprimirPorNiveis

SpecFila == Init /\ [][NextFila]_vars

\* A whole session: every operation on a catalog of up to MaxIdArq records;
\* the records change before the save, and after it the catalog is read,
\* dumped and reloaded from NomeSalvo.
NextSessao ==
    \/ CriarBiblioteca
    \/ (Editavel /\ Inserir(IdsArq, Titulos, Autores))
    \/ (Editavel /\ Remover(IdsArq))
    \/ (Editavel /\ Emprestar(IdsArq))
    \/ (Editavel /\ Devolver(IdsArq))
    \/ (Editavel /\ Salvar)
    \/ Carregar(IF Editavel THEN Nomes ELSE {NomeSalvo})
    \/ Buscar(IdsArq)
    \/ Listar
    \/ Contar
    \/ ImprimirPorNiveis

SpecSessao == Init /\ [][NextSessao]_vars

\* The catalog in memory when malloc may fail.
NextMemoria ==
    \/ CriarBiblioteca
    \/ Inserir(Ids, Titulos, Autores)
    \/ InserirSemMemoria(Ids, Titulos, Autores)
    \/ Remover(Ids)
    \/ Buscar(Ids)
    \/ Emprestar(Ids)
    \/ Contar

SpecMemoria == Init /\ [][NextMemoria]_vars

(***************************************************************************)
(* Vocabulary of the properties                                            *)
(***************************************************************************)
RECURSIVE IdsDe(_)
IdsDe(t) == IF t = NULL THEN {} ELSE IdsDe(t.esq) \cup {t.id} \cup IdsDe(t.dir)

\* strict search-tree order at every node; a repeated id breaks it
RECURSIVE EhABB(_)
EhABB(t) ==
    \/ t = NULL
    \/ /\ \A i \in IdsDe(t.esq) : i < t.id
       /\ \A i \in IdsDe(t.dir) : i > t.id
       /\ EhABB(t.esq)
       /\ EhABB(t.dir)

Dados(no) ==
    [id |-> no.id, titulo |-> no.titulo, autor |-> no.autor,
     disponivel |-> no.disponivel]

RECURSIVE Registros(_)
Registros(t) ==
    IF t = NULL THEN {} ELSE Registros(t.esq) \cup {Dados(t)} \cup Registros(t.dir)

Max(a, b) == IF a >= b THEN a ELSE b

\* nodes on the longest path from the root to a leaf
RECURSIVE Altura(_)
Altura(t) == IF t = NULL THEN 0 ELSE 1 + Max(Altura(t.esq), Altura(t.dir))

RECURSIVE EhBalanceada(_)
EhBalanceada(t) ==
    \/ t = NULL
    \/ /\ Altura(t.esq) - Altura(t.dir) \in {-1, 0, 1}
       /\ EhBalanceada(t.esq)
       /\ EhBalanceada(t.dir)

\* the smallest h with 2^h - 1 >= n
AlturaMinima(n) == CHOOSE h \in 0..n : 2^h - 1 >= n /\ \A k \in 0..(h - 1) : 2^k - 1 < n

\* the leaves of t with their depths, the root being at depth d
RECURSIVE Folhas(_, _)
Folhas(t, d) ==
    IF t = NULL THEN {}
    ELSE IF t.esq = NULL /\ t.dir = NULL THEN {<<t.id, d>>}
    ELSE Folhas(t.esq, d + 1) \cup Folhas(t.dir, d + 1)

\* the right-leaning chain i, i + 1, ... n
RECURSIVE EhCadeia(_, _, _)
EhCadeia(t, i, n) ==
    /\ t # NULL
    /\ t.id = i
    /\ t.esq = NULL
    /\ IF i = n THEN t.dir = NULL ELSE EhCadeia(t.dir, i + 1, n)

\* the records at depth d, left to right
RECURSIVE NoNivel(_, _)
NoNivel(t, d) ==
    IF t = NULL THEN <<>>
    ELSE IF d = 0 THEN <<[id |-> t.id, titulo |-> t.titulo]>>
    ELSE NoNivel(t.esq, d - 1) \o NoNivel(t.dir, d - 1)

RECURSIVE PorNiveisAte(_, _)
PorNiveisAte(t, d) ==
    IF d < 0 THEN <<>> ELSE PorNiveisAte(t, d - 1) \o NoNivel(t, d)

\* breadth-first order: the root, then each level left to right
PorNiveis(t) == PorNiveisAte(t, Altura(t) - 1)

Crescente(s) == \A i \in 1..(Len(s) - 1) : s[i].id < s[i + 1].id

\* the last operation loaded the persisted file into an empty catalog
RecarregouSalvo ==
    /\ ult.op = "carregar"
    /\ ult.nome = NomeSalvo
    /\ ult.res = "carregados"
    /\ antes = NULL
    /\ salvo # <<>>

\* the lines of dados that sscanf converts in full, in their order
RECURSIVE LinhasInteiras(_, _)
LinhasInteiras(dados, pos) ==
    IF pos > Len(dados) THEN <<>>
    ELSE LET k == fgets(dados, pos, pos)
             linha == SubSeq(dados, pos, k)
         IN  (IF sscanfLinha(linha, Reg(0, <<>>, <<>>, 0)).n = 4 THEN linha ELSE <<>>)
                \o LinhasInteiras(dados, k + 1)

(***************************************************************************)
(* C1: after any sequence of inserts, removes and reloads from the file    *)
(* the tree is a strict binary search tree: at every node the ids on the   *)
(* left are smaller, the ids on the right larger, and no id occurs twice.  *)
(***************************************************************************)
C1_ArvoreDeBusca == EhABB(raiz)

C1_Witness ==
    /\ RecarregouSalvo
    /\ contarLivros(raiz) >= 5
    /\ Altura(salvo[1]) >= 4

(***************************************************************************)
(* C2: while the catalog has only received inserts of pairwise distinct    *)
(* ids, find returns for each inserted id the record inserted with it      *)
(* (same title and author, available), find of any other id reports not    *)
(* found, and the in-order listing holds exactly those ids in strictly     *)
(* ascending order.                                                        *)
(***************************************************************************)
C2_InserirBuscar ==
    inseridos.valido =>
        /\ \A l \in inseridos.livros :
              /\ buscarLivro(raiz, l.id) # NULL
              /\ Dados(buscarLivro(raiz, l.id))
                    = [id |-> l.id, titulo |-> l.titulo, autor |-> l.autor,
                       disponivel |-> 1]
        /\ \A id \in 0..(MaxId + 1) :
              (\A l \in inseridos.livros : l.id # id) => buscarLivro(raiz, id) = NULL
        /\ Crescente(listarLivrosRecursivo(raiz))
        /\ {r.id : r \in Registros(raiz)} = {l.id : l \in inseridos.livros}
        /\ Len(listarLivrosRecursivo(raiz)) = Cardinality(inseridos.livros)
        /\ \A i \in 1..Len(listarLivrosRecursivo(raiz)) :
              \E l \in inseridos.livros :
                 listarLivrosRecursivo(raiz)[i]
                    = [id |-> l.id, titulo |-> l.titulo, autor |-> l.autor,
                       disponivel |-> "Sim"]

C2_Witness ==
    /\ inseridos.valido
    /\ ult.op = "inserir"
    /\ Cardinality(inseridos.livros) = 3
    /\ Altura(raiz) = 3
    /\ \E l \in inseridos.livros : l.titulo = <<>>
    /\ \E l \in inseridos.livros : l.titulo # <<>>

(***************************************************************************)
(* C3: removing an id that is present makes find of that id report not     *)
(* found, lowers count by exactly one, keeps every other id and leaves a   *)
(* binary search tree.                                                     *)
(***************************************************************************)
C3_Remover ==
    (ult.op = "remover" /\ buscarLivro(antes, ult.id) # NULL) =>
        /\ buscarLivro(raiz, ult.id) = NULL
        /\ contarLivros(raiz) = contarLivros(antes) - 1
        /\ IdsDe(raiz) = IdsDe(antes) \ {ult.id}
        /\ EhABB(raiz)

\* the removed node had two children and its successor was not its child
C3_Witness ==
    /\ ult.op = "remover"
    /\ LET no == buscarLivro(antes, ult.id)
       IN  /\ no # NULL
           /\ no.esq # NULL
           /\ no.dir # NULL
           /\ encontrarMenor(no.dir) # no.dir
           /\ encontrarMenor(no.dir).dir # NULL

(***************************************************************************)
(* C4: insert of an id that is already in the catalog changes nothing:     *)
(* the record keeps its title, author and availability (also when it is    *)
(* borrowed), and the tree and its count are the same as before.           *)
(***************************************************************************)
C4_InserirRepetido ==
    (ult.op = "inserir" /\ buscarLivro(antes, ult.id) # NULL) =>
        /\ raiz = antes
        /\ contarLivros(raiz) = contarLivros(antes)
        /\ Dados(buscarLivro(raiz, ult.id)) = Dados(buscarLivro(antes, ult.id))

C4_Witness ==
    /\ ult.op = "inserir"
    /\ buscarLivro(antes, ult.id) # NULL
    /\ buscarLivro(antes, ult.id).titulo # ult.titulo
    /\ buscarLivro(antes, ult.id).disponivel = 0
    /\ contarLivros(antes) = 3

(***************************************************************************)
(* C5: loading the persisted file into an empty catalog gives exactly the  *)
(* records (id, title, author, availability) the catalog held when it was  *)
(* persisted.                                                              *)
(***************************************************************************)
C5_IdaEVolta == RecarregouSalvo => Registros(raiz) = Registros(salvo[1])

(***************************************************************************)
(* C6: the chain built by inserting 1..7 in increasing order, persisted    *)
(* and loaded into an empty catalog, comes back with 4 at the root, 2 and  *)
(* 6 as its children and the leaves 1, 3, 5, 7 all at the same depth.      *)
(***************************************************************************)
C6_CadeiaBalanceada ==
    (RecarregouSalvo /\ EhCadeia(salvo[1], 1, NCadeia)) =>
        /\ raiz.id = 4
        /\ raiz.esq.id = 2
        /\ raiz.dir.id = 6
        /\ Folhas(raiz, 0) = {<<1, 2>>, <<3, 2>>, <<5, 2>>, <<7, 2>>}
        /\ contarLivros(raiz) = NCadeia
        /\ EhABB(raiz)

C6_Witness ==
    /\ RecarregouSalvo
    /\ EhCadeia(salvo[1], 1, NCadeia)
    /\ \A r \in Registros(salvo[1]) : r.titulo # <<>>

(***************************************************************************)
(* C7: a line of the file that does not convert into all four fields is    *)
(* skipped: the load leaves the catalog as the same file without its       *)
(* malformed lines would.                                                  *)
(***************************************************************************)
C7_LinhaIgnorada ==
    (ult.op = "carregar" /\ ult.res = "carregados") =>
        raiz = lerLinhas(antes, LinhasInteiras(Disco(ult.nome).dados, 1),
                         Reg(0, <<>>, <<>>, 0))

(***************************************************************************)
(* C8: borrow of a present record succeeds exactly when it is available    *)
(* and leaves it unavailable; on an unavailable record it reports          *)
(* unavailable and changes nothing.  Return succeeds exactly when the      *)
(* record is unavailable and leaves it available; on an available record   *)
(* it reports already available and changes nothing.  Both report not      *)
(* found for an absent id and change nothing.                              *)
(***************************************************************************)
C8_EmprestarDevolver ==
    /\ ult.op = "emprestar" =>
          LET l == buscarLivro(antes, ult.id)
          IN  /\ l = NULL => (ult.res = "nao encontrado" /\ raiz = antes)
              /\ (l # NULL /\ l.disponivel # 0) =>
                    /\ ult.res = "emprestado"
                    /\ buscarLivro(raiz, ult.id).disponivel = 0
                    /\ emprestarLivro(raiz, ult.id).res = "indisponivel"
                    /\ emprestarLivro(raiz, ult.id).raiz = raiz
              /\ (l # NULL /\ l.disponivel = 0) =>
                    (ult.res = "indisponivel" /\ raiz = antes)
    /\ ult.op = "devolver" =>
          LET l == buscarLivro(antes, ult.id)
          IN  /\ l = NULL => (ult.res = "nao encontrado" /\ raiz = antes)
              /\ (l # NULL /\ l.disponivel = 0) =>
                    /\ ult.res = "devolvido"
                    /\ buscarLivro(raiz, ult.id).disponivel # 0
                    /\ devolverLivro(raiz, ult.id).res = "ja disponivel"
                    /\ devolverLivro(raiz, ult.id).raiz = raiz
              /\ (l # NULL /\ l.disponivel # 0) =>
                    (ult.res = "ja disponivel" /\ raiz = antes)

\* a second borrow of a record that is not at the root
C8_Witness ==
    /\ ult.op = "emprestar"
    /\ ult.res = "indisponivel"
    /\ raiz # NULL
    /\ raiz.id # ult.id

(***************************************************************************)
(* C9: whatever the ids and the shape of the catalog, the tree that comes  *)
(* back from persist and load into an empty catalog holds as many records, *)
(* is height-balanced and has the minimal height for its number of         *)
(* records.                                                                *)
(***************************************************************************)
C9_AlturaMinima ==
    RecarregouSalvo =>
        /\ contarLivros(raiz) = contarLivros(salvo[1])
        /\ IdsDe(raiz) = IdsDe(salvo[1])
        /\ EhBalanceada(raiz)
        /\ Altura(raiz) = AlturaMinima(contarLivros(salvo[1]))

\* a chain of five records whose ids are not consecutive
C9_Witness ==
    /\ RecarregouSalvo
    /\ contarLivros(salvo[1]) = 5
    /\ Altura(salvo[1]) = 5
    /\ IdsDe(salvo[1]) # 1..5

(***************************************************************************)
(* C10: the level-order dump prints every record once, the root first and  *)
(* then each level left to right, and never writes more entries to its     *)
(* queue than the queue holds.                                             *)
(***************************************************************************)
C10_FilaSuficiente ==
    ult.op = "niveis" =>
        /\ ~ult.estouro
        /\ ult.fim <= MaxFila
        /\ ult.saida = PorNiveis(antes)

(***************************************************************************)
(* C11: remove of an id that is not in the catalog changes nothing: the    *)
(* count, the shape of the tree and every field of every record are the    *)
(* same as before the call.                                                *)
(***************************************************************************)
C11_RemoverAusente ==
    (ult.op = "remover" /\ buscarLivro(antes, ult.id) = NULL) =>
        /\ raiz = antes
        /\ contarLivros(raiz) = contarLivros(antes)
        /\ Registros(raiz) = Registros(antes)

\* the absent id lies between two ids of the catalog, one of them borrowed
C11_Witness ==
    /\ ult.op = "remover"
    /\ buscarLivro(antes, ult.id) = NULL
    /\ \E a, b \in Registros(antes) :
          a.id < ult.id /\ ult.id < b.id /\ a.disponivel = 0

RECURSIVE Linhas(_, _)
Linhas(dados, pos) ==
    IF pos > Len(dados) THEN <<>>
    ELSE LET k == fgets(dados, pos, pos)
         IN  <<SubSeq(dados, pos, k)>> \o Linhas(dados, k + 1)

\* the records of the set regs in increasing order of id
Ordenados(regs) ==
    [i \in 1..Cardinality(regs) |->
        CHOOSE r \in regs : Cardinality({q \in regs : q.id < r.id}) = i - 1]

\* the indices lo..hi, the midpoint first, then the left half, then the right
RECURSIVE OrdemDosMeios(_, _)
OrdemDosMeios(lo, hi) ==
    IF lo > hi THEN <<>>
    ELSE <<(lo + hi) \div 2>>
            \o OrdemDosMeios(lo, ((lo + hi) \div 2) - 1)
            \o OrdemDosMeios(((lo + hi) \div 2) + 1, hi)

(***************************************************************************)
(* C12: persist writes exactly one line per record, none left out and none *)
(* twice, and the lines come in the pre-order of midpoints of the records  *)
(* sorted by id: the record at index (lo + hi) / 2 of a range first, then  *)
(* the range to its left, then the range to its right.                     *)
(***************************************************************************)
C12_UmaLinhaPorRegistro ==
    ult.op = "salvar" =>
        LET regs == Registros(raiz)
            n == Cardinality(regs)
            ord == Ordenados(regs)
            ls == Linhas(arquivo.dados, 1)
            idx == OrdemDosMeios(0, n - 1)
        IN  /\ arquivo.existe
            /\ n = contarLivros(raiz)
            /\ Len(ls) = n
            /\ \A r \in regs : Cardinality({k \in 1..Len(ls) : ls[k] = Texto(r)}) = 1
            /\ \A k \in 1..Len(ls) : ls[k] = Texto(ord[idx[k] + 1])

\* six records in a tree that is neither balanced nor a chain
C12_Witness ==
    /\ ult.op = "salvar"
    /\ contarLivros(raiz) = 6
    /\ Altura(raiz) \in {4, 5}
    /\ raiz.esq # NULL
    /\ raiz.dir # NULL

(***************************************************************************)
(* C13: a load from a file that cannot be opened reports the error,        *)
(* returns, and leaves the catalog as it was: the same tree with the same  *)
(* records, and an empty catalog still empty.                              *)
(***************************************************************************)
C13_ArquivoAusente ==
    ult.op = "carregar" =>
        /\ ult.res = "erro ao abrir" <=> ~Disco(ult.nome).existe
        /\ ult.res = "erro ao abrir" =>
              /\ raiz = antes
              /\ Registros(raiz) = Registros(antes)
              /\ contarLivros(raiz) = contarLivros(antes)

\* the catalog held two records, one of them borrowed
C13_Witness ==
    /\ ult.op = "carregar"
    /\ ult.res = "erro ao abrir"
    /\ contarLivros(antes) = 2
    /\ \E r \in Registros(antes) : r.disponivel = 0

(***************************************************************************)
(* C14: count is the number of records in the catalog after any inserts,   *)
(* removes and loads: it goes up by one with the insert of a new id, down  *)
(* by one with the remove of a present id, and is 0 on the empty catalog;  *)
(* the in-order listing of the empty catalog is the empty signal alone.    *)
(***************************************************************************)
C14_Contagem ==
    /\ contarLivros(raiz) = Cardinality(IdsDe(raiz))
    /\ contarLivros(raiz) = Cardinality(Registros(raiz))
    /\ raiz = NULL => contarLivros(raiz) = 0
    /\ ult.op = "contar" =>
          /\ ult.n = Cardinality(Registros(raiz))
          /\ raiz = NULL => ult.n = 0
    /\ ult.op = "inserir" =>
          contarLivros(raiz) = contarLivros(antes)
                + (IF ult.id \in IdsDe(antes) THEN 0 ELSE 1)
    /\ ult.op = "remover" =>
          contarLivros(raiz) = contarLivros(antes)
                - (IF ult.id \in IdsDe(antes) THEN 1 ELSE 0)
    /\ ult.op = "carregar" => contarLivros(raiz) >= contarLivros(antes)
    /\ ult.op = "listar" =>
          IF raiz = NULL
          THEN ult.saida = <<"Biblioteca vazia!">>
          ELSE /\ Len(ult.saida) = Cardinality(Registros(raiz))
               /\ {ult.saida[i].id : i \in 1..Len(ult.saida)} = IdsDe(raiz)

\* the count of a catalog that a load rebuilt with its root on the left
C14_Witness ==
    /\ ult.op = "contar"
    /\ ult.n = 2
    /\ salvo # <<>>
    /\ raiz # salvo[1]
    /\ raiz.dir # NULL

(***************************************************************************)
(* C15: when the allocation of the new node fails, insert hands its caller *)
(* a failure outcome and leaves the tree exactly as it was.                *)
(***************************************************************************)
C15_FalhaDeAlocacao ==
    (ult.op = "inserir sem memoria" /\ buscarLivro(antes, ult.id) = NULL) =>
        /\ raiz = antes
        /\ ult.saida # <<>>

\* what sscanf converts from each line of dados, and how many fields
Campos(dados) ==
    LET ls == Linhas(dados, 1)
    IN  [i \in 1..Len(ls) |-> sscanfLinha(ls[i], Reg(0, <<>>, <<>>, 0))]

\* the tree with every availability flag blanked: shape, ids, titles, authors
RECURSIVE SemDisponivel(_)
SemDisponivel(t) ==
    IF t = NULL THEN NULL
    ELSE [t EXCEPT !.disponivel = 0,
                   !.esq = SemDisponivel(@),
                   !.dir = SemDisponivel(@)]

(***************************************************************************)
(* C17: a load of well-formed lines leaves every record that was already   *)
(* in the catalog with its title and author, and the tree with its shape   *)
(* when no line brings a new id; the availability of a record named by a   *)
(* line becomes that of the last line with its id.  A record that the load *)
(* adds has the title and author of the first line with its id and the     *)
(* availability of the last.                                               *)
(***************************************************************************)
C17_SoDisponibilidade ==
    (/\ ult.op = "carregar"
     /\ ult.res = "carregados"
     /\ \A i \in DOMAIN Campos(Disco(ult.nome).dados) :
            Campos(Disco(ult.nome).dados)[i].n = 4) =>
        LET cs == Campos(Disco(ult.nome).dados)
            idsL == {cs[i].loc.id : i \in DOMAIN cs}
            Com(id) == {i \in DOMAIN cs : cs[i].loc.id = id}
            Pri(id) == cs[CHOOSE i \in Com(id) : \A j \in Com(id) : i <= j].loc
            Ult(id) == cs[CHOOSE i \in Com(id) : \A j \in Com(id) : i >= j].loc
        IN  /\ IdsDe(raiz) = IdsDe(antes) \cup idsL
            /\ contarLivros(raiz) = Cardinality(IdsDe(raiz))
            /\ \A r \in Registros(raiz) :
                  /\ r.id \in IdsDe(antes) =>
                        /\ r.titulo = buscarLivro(antes, r.id).titulo
                        /\ r.autor = buscarLivro(antes, r.id).autor
                        /\ r.disponivel =
                              IF r.id \in idsL
                              THEN Ult(r.id).disponivel
                              ELSE buscarLivro(antes, r.id).disponivel
                  /\ r.id \notin IdsDe(antes) =>
                        /\ r.titulo = Pri(r.id).titulo
                        /\ r.autor = Pri(r.id).autor
                        /\ r.disponivel = Ult(r.id).disponivel
            /\ idsL \subseteq IdsDe(antes) => SemDisponivel(raiz) = SemDisponivel(antes)

\* the file with two lines for id 1, loaded over a record 1 of another title
C17_Witness ==
    /\ ult.op = "carregar"
    /\ ult.nome = "repetido"
    /\ contarLivros(antes) = 2
    /\ buscarLivro(antes, 1) # NULL
    /\ buscarLivro(antes, 1).titulo = <<>>
    /\ buscarLivro(antes, 1).disponivel = 1
    /\ buscarLivro(raiz, 1).disponivel = 0

(***************************************************************************)
(* C18: find, count, the in-order listing, the level-order dump and        *)
(* persist leave the tree as it was; borrow and return leave the shape and *)
(* every id, title and author as they were and every other record's        *)
(* availability too, and leave the whole tree as it was when they report   *)
(* not found, unavailable or already available.                            *)
(***************************************************************************)
C18_SoLeitura ==
    /\ ult.op \in {"buscar", "contar", "listar", "niveis", "salvar"} =>
          raiz = antes
    /\ ult.op \in {"emprestar", "devolver"} =>
          /\ SemDisponivel(raiz) = SemDisponivel(antes)
          /\ \A r \in Registros(antes) : r.id # ult.id => r \in Registros(raiz)
          /\ ult.res \in {"nao encontrado", "indisponivel", "ja disponivel"} =>
                raiz = antes

=============================================================================
